---- MODULE Spec2Model ----
(***************************************************************************)
(* Model of the CTIM codec of src/ctim.cpp: encodeCTIM packs a ledger      *)
(* index, a transaction index and a network id into a tagged 64-bit word   *)
(* and prints it as 16 uppercase hex characters; decodeCTIM validates a    *)
(* text or an integer input and unpacks it.                                *)
(*                                                                         *)
(* Fixed-width unsigned integers are big-endian sequences of 16-bit limbs  *)
(* (a uint64_t is 4 limbs, a uint32_t 2 limbs, a uint16_t 1 limb), so that *)
(* every intermediate value is a small integer while additions, shifts,    *)
(* masks and conversions keep the width they have in the program.  A       *)
(* string is a sequence of one-character strings.  An std::optional is     *)
(* <<>> (absent) or <<x>> (present).                                       *)
(***************************************************************************)
EXTENDS Integers, Sequences, FiniteSets

VARIABLES chain, callerArgs, encParams, encValue, encResult,
          decInput, decValue, decResult, terminated

vars == <<chain, callerArgs, encParams, encValue, encResult,
          decInput, decValue, decResult, terminated>>

----------------------------------------------------------------------------
(* Bounds of the explored inputs.                                          *)

\* Caller-side integers are wider than the parameter they are passed to:
\* they carry one extra limb above it, holding a value in 0..MaxExtra.
MaxExtra == 1
\* Text inputs are lengthened by up to MaxAppend characters.
MaxAppend == 1
\* Text inputs are shortened by up to MaxDrop characters.
MaxDrop == 1

----------------------------------------------------------------------------
(* Fixed-width unsigned arithmetic on limb sequences.                      *)

LimbBase == 65536

Absent == <<>>
Present(x) == <<x>>

RECURSIVE Zeros(_)
Zeros(n) == IF n = 0 THEN <<>> ELSE <<0>> \o Zeros(n - 1)

RECURSIVE Ones(_)
Ones(n) == IF n = 0 THEN <<>> ELSE <<LimbBase - 1>> \o Ones(n - 1)

\* Conversion of an unsigned value to a narrower unsigned type of n limbs:
\* the value modulo 2^(16 n), i.e. its n low limbs.
Truncate(w, n) == SubSeq(w, Len(w) - n + 1, Len(w))

\* Conversion of an unsigned value to a wider unsigned type of n limbs.
ZeroExtend(w, n) == Zeros(n - Len(w)) \o w

\* Conversion of a signed (two's complement) value to an unsigned type of
\* n limbs: the sign bit is replicated.
SignExtend(w, n) ==
  IF w[1] >= LimbBase \div 2 THEN Ones(n - Len(w)) \o w
                             ELSE Zeros(n - Len(w)) \o w

\* a + b modulo 2^(16 Len(a)), c the carry into the lowest limb.
RECURSIVE AddLimbs(_, _, _)
AddLimbs(a, b, c) ==
  IF a = <<>> THEN <<>>
  ELSE LET n == Len(a)
           s == a[n] + b[n] + c
       IN  Append(AddLimbs(SubSeq(a, 1, n - 1), SubSeq(b, 1, n - 1),
                           s \div LimbBase),
                  s % LimbBase)

Add(a, b) == AddLimbs(a, b, 0)

\* a << (16 k) in the width of a: the k high limbs are shifted out.
ShiftLeftLimbs(a, k) == SubSeq(a, k + 1, Len(a)) \o Zeros(k)

\* a >> (16 k) in the width of a.
ShiftRightLimbs(a, k) == Zeros(k) \o SubSeq(a, 1, Len(a) - k)

RECURSIVE BitAnd(_, _)
BitAnd(x, y) ==
  IF x = 0 \/ y = 0 THEN 0
  ELSE (x % 2) * (y % 2) + 2 * BitAnd(x \div 2, y \div 2)

\* a & b on two values of the same width.
And(a, b) == [i \in 1..Len(a) |-> BitAnd(a[i], b[i])]

\* a > b on two unsigned values of the same width.
RECURSIVE GreaterThan(_, _)
GreaterThan(a, b) ==
  IF a = <<>> THEN FALSE
  ELSE IF a[1] # b[1] THEN a[1] > b[1]
  ELSE GreaterThan(Tail(a), Tail(b))

----------------------------------------------------------------------------
(* encodeCTIM                                                              *)

\* A range check against 0xFFFFFFFF, one F too many.
MaxLgrIndexWide == <<65535, 65535>>
\* 0xFFFFFFF as a uint32_t
MaxLgrIndex == <<4095, 65535>>
\* 0xFFFF as a uint16_t
MaxTxnIndex == <<65535>>
MaxNetworkId == <<65535>>
\* The tag written as 0x0C000000ULL.
TagBaseTypo == <<0, 0, 3072, 0>>
\* 0xC0000000ULL
TagBase == <<0, 0, 49152, 0>>

\* The parameter passing of encodeCTIM(uint32_t, uint16_t, uint16_t): each
\* argument is converted to the parameter's type.
encodeParams(args) ==
  <<Truncate(args[1], 2), Truncate(args[2], 1), Truncate(args[3], 1)>>

encodeRejects(lgrIndex, txnIndex, networkId) ==
  \/ GreaterThan(lgrIndex, MaxLgrIndex)
  \/ GreaterThan(txnIndex, MaxTxnIndex)
  \/ GreaterThan(networkId, MaxNetworkId)

\* The packing without the shift of the transaction index by 16 bits.
encodeValueNoTxnShift(lgrIndex, txnIndex, networkId) ==
  Add(Add(ShiftLeftLimbs(Add(TagBase, ZeroExtend(lgrIndex, 4)), 2),
          ZeroExtend(txnIndex, 4)),
      ZeroExtend(networkId, 4))

encodeValue(lgrIndex, txnIndex, networkId) ==
  Add(Add(ShiftLeftLimbs(Add(TagBase, ZeroExtend(lgrIndex, 4)), 2),
          ShiftLeftLimbs(ZeroExtend(txnIndex, 4), 1)),
      ZeroExtend(networkId, 4))

\* The digits of std::hex without std::uppercase.
HexDigitsLower ==
  <<"0", "1", "2", "3", "4", "5", "6", "7",
    "8", "9", "a", "b", "c", "d", "e", "f">>

\* The digits of std::hex with std::uppercase.
HexDigits ==
  <<"0", "1", "2", "3", "4", "5", "6", "7",
    "8", "9", "A", "B", "C", "D", "E", "F">>

LimbNibbles(x) ==
  <<x \div 4096, (x \div 256) % 16, (x \div 16) % 16, x % 16>>

RECURSIVE Nibbles(_)
Nibbles(w) == IF w = <<>> THEN <<>> ELSE LimbNibbles(w[1]) \o Nibbles(Tail(w))

RECURSIVE StripLeadingZeros(_)
StripLeadingZeros(ns) ==
  IF Len(ns) > 1 /\ ns[1] = 0 THEN StripLeadingZeros(Tail(ns)) ELSE ns

\* operator<< of an unsigned integer in base 16: its digits without leading
\* zeros, a single "0" for zero.
HexText(w) ==
  LET ns == StripLeadingZeros(Nibbles(w))
  IN  [i \in 1..Len(ns) |-> HexDigits[ns[i] + 1]]

RECURSIVE Fill(_, _)
Fill(c, n) == IF n <= 0 THEN <<>> ELSE <<c>> \o Fill(c, n - 1)

FieldWidth == 16

\* std::setfill('0') << std::setw(16): text shorter than the field width is
\* padded on the left, longer text is left alone.
FormatHex(w) ==
  LET t == HexText(w) IN Fill("0", FieldWidth - Len(t)) \o t

encodeCTIM(lgrIndex, txnIndex, networkId) ==
  IF encodeRejects(lgrIndex, txnIndex, networkId) THEN Absent
  ELSE Present(FormatHex(encodeValue(lgrIndex, txnIndex, networkId)))

----------------------------------------------------------------------------
(* decodeCTIM                                                              *)

CtimLength == 16

\* The character class [0-9A-Fa-f].
RegexClassAnyCase ==
  {"0", "1", "2", "3", "4", "5", "6", "7", "8", "9",
   "A", "B", "C", "D", "E", "F", "a", "b", "c", "d", "e", "f"}

\* The character class [0-9A-F] of the regular expression.
RegexClass ==
  {"0", "1", "2", "3", "4", "5", "6", "7",
   "8", "9", "A", "B", "C", "D", "E", "F"}

\* std::regex_match(s, std::regex("^[0-9A-F]+$")): the whole of s is one or
\* more characters of the class.
regex_match(s) == Len(s) >= 1 /\ \A i \in 1..Len(s) : s[i] \in RegexClass

\* The value of a character as a base-16 digit of strtoull (either case),
\* -1 when it is not one.
DigitValue(c) ==
  CASE c = "0" -> 0  [] c = "1" -> 1  [] c = "2" -> 2  [] c = "3" -> 3
    [] c = "4" -> 4  [] c = "5" -> 5  [] c = "6" -> 6  [] c = "7" -> 7
    [] c = "8" -> 8  [] c = "9" -> 9
    [] c \in {"A", "a"} -> 10  [] c \in {"B", "b"} -> 11
    [] c \in {"C", "c"} -> 12  [] c \in {"D", "d"} -> 13
    [] c \in {"E", "e"} -> 14  [] c \in {"F", "f"} -> 15
    [] OTHER -> -1

RECURSIVE SkipSpaces(_)
SkipSpaces(s) ==
  IF s # <<>> /\ s[1] = " " THEN SkipSpaces(Tail(s)) ELSE s

\* 16 v + d in 64 bits, with the bits carried out of the top limb.
MulAddDigit(v, d) ==
  LET l4 == v[4] * 16 + d
      l3 == v[3] * 16 + l4 \div LimbBase
      l2 == v[2] * 16 + l3 \div LimbBase
      l1 == v[1] * 16 + l2 \div LimbBase
  IN  [value |-> <<l1 % LimbBase, l2 % LimbBase, l3 % LimbBase, l4 % LimbBase>>,
       carry |-> l1 \div LimbBase]

\* The longest run of base-16 digits at the start of s, accumulated.
RECURSIVE ParseDigits(_, _, _, _)
ParseDigits(s, acc, any, overflow) ==
  IF s = <<>> \/ DigitValue(s[1]) < 0
  THEN [value |-> acc, any |-> any, overflow |-> overflow]
  ELSE LET m == MulAddDigit(acc, DigitValue(s[1]))
       IN  ParseDigits(Tail(s), m.value, TRUE, overflow \/ m.carry # 0)

\* 0 - v in 64 bits.
Negate(v) ==
  Add([i \in 1..Len(v) |-> LimbBase - 1 - v[i]], <<0, 0, 0, 1>>)

\* std::stoull(s, nullptr, 16): leading white space, an optional sign, an
\* optional 0x prefix, then as many base-16 digits as there are; throws
\* std::invalid_argument when there is no digit and std::out_of_range when
\* the value does not fit unsigned long long.
stoull(s) ==
  LET s1 == SkipSpaces(s)
      neg == s1 # <<>> /\ s1[1] = "-"
      s2 == IF s1 # <<>> /\ s1[1] \in {"+", "-"} THEN Tail(s1) ELSE s1
      s3 == IF /\ Len(s2) >= 3
               /\ s2[1] = "0"
               /\ s2[2] \in {"x", "X"}
               /\ DigitValue(s2[3]) >= 0
            THEN SubSeq(s2, 3, Len(s2)) ELSE s2
      p == ParseDigits(s3, Zeros(4), FALSE, FALSE)
  IN  IF ~p.any THEN [status |-> "invalid_argument", value |-> Zeros(4)]
      ELSE IF p.overflow THEN [status |-> "out_of_range", value |-> Ones(4)]
      ELSE [status |-> "ok", value |-> IF neg THEN Negate(p.value) ELSE p.value]

TextTypes == {"std::string", "const char *"}
IntegralTypes == {"int", "long long", "unsigned long long"}
OtherTypes == {"double"}

\* ctimValue = ctim for an integral T: the conversion to uint64_t.
ToUint64(T, ctim) ==
  IF T = "unsigned long long" THEN ZeroExtend(ctim, 4) ELSE SignExtend(ctim, 4)

\* 0xFFFFFFFFFFFFFFFFULL
MaxUint64 == <<65535, 65535, 65535, 65535>>
\* A mask of 0xC000000000000000ULL, the tag's own bits only.
TagMaskNarrow == <<49152, 0, 0, 0>>
\* 0xF000000000000000ULL
TagMask == <<61440, 0, 0, 0>>
\* 0xC000000000000000ULL
TagValue == <<49152, 0, 0, 0>>
\* A mask of 0xFFFFFFFFUL, which keeps the tag nibble.
LgrMaskWide == <<0, 0, 65535, 65535>>
\* 0xFFFFFFFUL
LgrMask == <<0, 0, 4095, 65535>>
\* 0xFFFFU
FieldMask == <<0, 0, 0, 65535>>

tagRejects(ctimValue) ==
  \/ GreaterThan(ctimValue, MaxUint64)
  \/ And(ctimValue, TagMask) # TagValue

decodeLgrIndex(ctimValue) ==
  Truncate(And(ShiftRightLimbs(ctimValue, 2), LgrMask), 2)

\* The transaction index taken without the shift by 16 bits.
decodeTxnIndexNoShift(ctimValue) == Truncate(And(ctimValue, FieldMask), 1)

decodeTxnIndex(ctimValue) ==
  Truncate(And(ShiftRightLimbs(ctimValue, 1), FieldMask), 1)

decodeNetworkId(ctimValue) == Truncate(And(ctimValue, FieldMask), 1)

unpack(ctimValue) ==
  IF tagRejects(ctimValue) THEN Absent
  ELSE Present(<<decodeLgrIndex(ctimValue), decodeTxnIndex(ctimValue),
                 decodeNetworkId(ctimValue)>>)

\* The outcome of one call: terminated is TRUE when an exception leaves the
\* noexcept function (std::terminate), value is ctimValue when the call
\* got as far as the tag check, result is the returned optional.
Returned(value, result) ==
  [terminated |-> FALSE, value |-> value, result |-> result]

Terminated == [terminated |-> TRUE, value |-> Absent, result |-> Absent]

\* The text checks without the length check.
textRejectsNoLength(ctimString) == ~regex_match(ctimString)

textRejects(ctimString) ==
  \/ Len(ctimString) # CtimLength
  \/ ~regex_match(ctimString)

decodeText(ctimString) ==
  IF textRejects(ctimString) THEN Returned(Absent, Absent)
  ELSE LET r == stoull(ctimString)
       IN  IF r.status # "ok" THEN Terminated
           ELSE Returned(Present(r.value), unpack(r.value))

decodeCTIM(T, ctim) ==
  IF T \in TextTypes THEN decodeText(ctim)
  ELSE IF T \in IntegralTypes
  THEN Returned(Present(ToUint64(T, ctim)), unpack(ToUint64(T, ctim)))
  ELSE Returned(Absent, Absent)

----------------------------------------------------------------------------
(* The explored inputs.                                                    *)

LgrHighLimbs == {0, 1, 202, 4095, 4096, 49152, 65535}
LgrLowLimbs == {0, 1, 10919, 65535}
TxnLimbs == {0, 2, 12911, 65535}
NetLimbs == {0, 3, 49221, 65535}

\* Arguments as the caller holds them, one limb wider than the parameter.
EncodeArgs ==
  { <<<<x1, h, l>>, <<x2, t>>, <<x3, n>>>> :
      x1 \in 0..MaxExtra, h \in LgrHighLimbs, l \in LgrLowLimbs,
      x2 \in 0..MaxExtra, t \in TxnLimbs,
      x3 \in 0..MaxExtra, n \in NetLimbs }

Limb3Set == {0, 3072, 49151, 49152, 49155, 49354, 53247, 53248, 65535}
Limb2Set == {0, 1, 10919, 16383, 65535}
Limb1Set == {0, 2, 12911, 65535}
Limb0Set == {0, 3, 3327, 49221, 65535}

Values64 ==
  { <<a, b, c, d>> : a \in Limb3Set, b \in Limb2Set, c \in Limb1Set,
                     d \in Limb0Set }

Values32 == { <<c, d>> : c \in {0, 49152, 65535}, d \in Limb0Set }

BadChars == {"G", "a", "c", "f", "g", "x", " ", "+", "-"}
BadPositions == {1, 2, 16}

Replace(s, p, c) == [i \in 1..Len(s) |-> IF i = p THEN c ELSE s[i]]

\* The texts: the 16 characters of a 64-bit value, the same shortened,
\* lengthened, or with one character replaced, and two short texts.
TextInputs ==
  LET Base == { FormatHex(v) : v \in Values64 }
  IN  Base
      \cup { SubSeq(s, 1, Len(s) - k) : s \in Base, k \in 1..MaxDrop }
      \cup { s \o Fill("F", k) : s \in Base, k \in 1..MaxAppend }
      \cup { Replace(s, p, c) : s \in Base, p \in BadPositions, c \in BadChars }
      \cup { <<>>, <<"C">> }

----------------------------------------------------------------------------
(* The calls.  A run starts with the arguments of one call in hand; the    *)
(* call is made, and its result may then be fed to the opposite operation. *)

DecodeInputs ==
  { [T |-> T, ctim |-> s] : T \in TextTypes, s \in TextInputs }
  \cup { [T |-> T, ctim |-> v] :
           T \in {"long long", "unsigned long long"}, v \in Values64 }
  \cup { [T |-> "int", ctim |-> v] : v \in Values32 }
  \cup { [T |-> T, ctim |-> v] : T \in OtherTypes, v \in Values32 }

Init ==
  /\ chain = "start"
  /\ \/ /\ callerArgs \in { Present(a) : a \in EncodeArgs }
        /\ decInput = Absent
     \/ /\ callerArgs = Absent
        /\ decInput \in { Present(d) : d \in DecodeInputs }
  /\ encParams = Absent
  /\ encValue = Absent
  /\ encResult = Absent
  /\ decValue = Absent
  /\ decResult = Absent
  /\ terminated = FALSE

CallEncode(args) ==
  LET ps == encodeParams(args)
  IN  /\ callerArgs' = Present(args)
      /\ encParams' = Present(ps)
      /\ encValue' = IF encodeRejects(ps[1], ps[2], ps[3]) THEN Absent
                     ELSE Present(encodeValue(ps[1], ps[2], ps[3]))
      /\ encResult' = encodeCTIM(ps[1], ps[2], ps[3])

CallDecode(T, ctim) ==
  LET r == decodeCTIM(T, ctim)
  IN  /\ decInput' = Present([T |-> T, ctim |-> ctim])
      /\ decValue' = r.value
      /\ decResult' = r.result
      /\ terminated' = r.terminated

\* encodeCTIM(l, t, n) on the arguments in hand.
Encode ==
  /\ ~terminated
  /\ chain = "start"
  /\ callerArgs # Absent
  /\ CallEncode(callerArgs[1])
  /\ chain' = "enc"
  /\ UNCHANGED <<decInput, decValue, decResult, terminated>>

\* decodeCTIM(s) on the text in hand.
DecodeText ==
  /\ ~terminated
  /\ chain = "start"
  /\ decInput # Absent
  /\ decInput[1].T \in TextTypes
  /\ CallDecode(decInput[1].T, decInput[1].ctim)
  /\ chain' = "dec"
  /\ UNCHANGED <<callerArgs, encParams, encValue, encResult>>

\* decodeCTIM(v) on the integer in hand.
DecodeInteger ==
  /\ ~terminated
  /\ chain = "start"
  /\ decInput # Absent
  /\ decInput[1].T \in IntegralTypes
  /\ CallDecode(decInput[1].T, decInput[1].ctim)
  /\ chain' = "dec"
  /\ UNCHANGED <<callerArgs, encParams, encValue, encResult>>

\* decodeCTIM(x) on a value that is neither text nor integral.
DecodeOther ==
  /\ ~terminated
  /\ chain = "start"
  /\ decInput # Absent
  /\ decInput[1].T \notin TextTypes \cup IntegralTypes
  /\ CallDecode(decInput[1].T, decInput[1].ctim)
  /\ chain' = "dec"
  /\ UNCHANGED <<callerArgs, encParams, encValue, encResult>>

\* decodeCTIM(*encodeCTIM(l, t, n)): the string just returned is decoded.
DecodeEncodedText ==
  /\ ~terminated
  /\ chain = "enc"
  /\ encResult # Absent
  /\ CallDecode("std::string", encResult[1])
  /\ chain' = "enc-dec-text"
  /\ UNCHANGED <<callerArgs, encParams, encValue, encResult>>

\* The 64-bit value of the string just returned is decoded.
DecodeEncodedValue ==
  /\ ~terminated
  /\ chain = "enc"
  /\ encValue # Absent
  /\ CallDecode("unsigned long long", encValue[1])
  /\ chain' = "enc-dec-value"
  /\ UNCHANGED <<callerArgs, encParams, encValue, encResult>>

\* encodeCTIM on the triple just returned by decodeCTIM.
EncodeDecoded ==
  /\ ~terminated
  /\ chain = "dec"
  /\ decResult # Absent
  /\ CallEncode(decResult[1])
  /\ chain' = "dec-enc"
  /\ UNCHANGED <<decInput, decValue, decResult, terminated>>

Next ==
  \/ Encode
  \/ DecodeText
  \/ DecodeInteger
  \/ DecodeOther
  \/ DecodeEncodedText
  \/ DecodeEncodedValue
  \/ EncodeDecoded

Spec == Init /\ [][Next]_vars

----------------------------------------------------------------------------
(* Properties.                                                             *)

\* C1: round trip.  For every triple (l, t, n) with l <= 0xFFFFFFF,
\* t <= 0xFFFF and n <= 0xFFFF, encodeCTIM returns a string, decodeCTIM of
\* that string returns exactly (l, t, n), the value parsed from the string is
\* the value that was packed, and decodeCTIM of that 64-bit value returns
\* (l, t, n) as well.
C1_RoundTrip ==
  LET a == callerArgs[1]
      valid == /\ a[1][1] = 0 /\ a[1][2] <= 4095
               /\ a[2][1] = 0
               /\ a[3][1] = 0
      triple == <<<<a[1][2], a[1][3]>>, <<a[2][2]>>, <<a[3][2]>>>>
  IN  (chain \in {"enc", "enc-dec-text", "enc-dec-value"} /\ valid) =>
        /\ encResult # Absent
        /\ chain # "enc" => decResult = Present(triple)
        /\ chain = "enc-dec-text" => decValue = encValue

C1_Witness ==
  /\ chain = "enc-dec-text"
  /\ callerArgs = Present(<<<<0, 202, 10919>>, <<0, 12911>>, <<0, 49221>>>>)
  /\ decResult = Present(<<<<202, 10919>>, <<12911>>, <<49221>>>>)

\* C2: for every triple in range, encodeCTIM returns the 16 characters, taken
\* from 0-9A-F, that spell the 64-bit value with the nibble 0xC in bits
\* 63-60, l in bits 59-32, t in bits 31-16 and n in bits 15-0, no bit lost;
\* encode(1,2,3) is "C000000100020003" and encode(0xFFFFFFF,0xFFFF,0xFFFF)
\* is "CFFFFFFFFFFFFFFF".
C2_EncodeIsPackedHex ==
  LET a == callerArgs[1]
      valid == /\ a[1][1] = 0 /\ a[1][2] <= 4095
               /\ a[2][1] = 0
               /\ a[3][1] = 0
      D == <<"0", "1", "2", "3", "4", "5", "6", "7",
             "8", "9", "A", "B", "C", "D", "E", "F">>
      Dig(x, k) == D[((x \div (16 ^ k)) % 16) + 1]
      h == a[1][2]
      l == a[1][3]
      t == a[2][2]
      n == a[3][2]
      expected ==
        <<"C", Dig(h, 2), Dig(h, 1), Dig(h, 0),
          Dig(l, 3), Dig(l, 2), Dig(l, 1), Dig(l, 0),
          Dig(t, 3), Dig(t, 2), Dig(t, 1), Dig(t, 0),
          Dig(n, 3), Dig(n, 2), Dig(n, 1), Dig(n, 0)>>
  IN  (chain = "enc" /\ valid) =>
        /\ encValue = Present(<<49152 + h, l, t, n>>)
        /\ encResult = Present(expected)
        /\ (h = 0 /\ l = 1 /\ t = 2 /\ n = 3) =>
             encResult = Present(<<"C", "0", "0", "0", "0", "0", "0", "1",
                                   "0", "0", "0", "2", "0", "0", "0", "3">>)
        /\ (h = 4095 /\ l = 65535 /\ t = 65535 /\ n = 65535) =>
             encResult = Present(<<"C", "F", "F", "F", "F", "F", "F", "F",
                                   "F", "F", "F", "F", "F", "F", "F", "F">>)

C2_Witness ==
  /\ chain = "enc"
  /\ callerArgs = Present(<<<<0, 0, 1>>, <<0, 2>>, <<0, 3>>>>)
  /\ encResult = Present(<<"C", "0", "0", "0", "0", "0", "0", "1",
                           "0", "0", "0", "2", "0", "0", "0", "3">>)

\* C3: tag invariant.  Whenever encodeCTIM returns a string, bits 63-60 of
\* the packed value are 0xC and the first character of the string is "C";
\* the addition of the ledger index does not carry into the tag nibble.
C3_TagInvariant ==
  encResult # Absent =>
    /\ encValue # Absent
    /\ encValue[1][1] \div 4096 = 12
    /\ encResult[1][1] = "C"

C3_Witness ==
  /\ chain = "enc"
  /\ encParams[1][1] = <<4095, 65535>>
  /\ encResult # Absent
  /\ encResult[1][1] = "C"

C5_FieldOutOfRange ==
  LET a == callerArgs[1]
  IN  (chain = "enc" /\ (a[2][1] > 0 \/ a[3][1] > 0)) => encResult = Absent

\* C6: decodeCTIM of a text returns the absent result whenever the text is
\* not exactly 16 characters long or has a character outside 0-9 and
\* uppercase A-F, whatever its first character.
C6_MalformedText ==
  LET s == decInput[1].ctim
      Upper == {"0", "1", "2", "3", "4", "5", "6", "7",
                "8", "9", "A", "B", "C", "D", "E", "F"}
  IN  (/\ chain = "dec"
       /\ decInput[1].T \in {"std::string", "const char *"}
       /\ (Len(s) # 16 \/ \E i \in 1..Len(s) : s[i] \notin Upper)) =>
        /\ decResult = Absent
        /\ ~terminated

C6_Witness ==
  /\ chain = "dec"
  /\ decInput[1].T = "const char *"
  /\ decInput[1].ctim = <<"c", "0", "0", "0", "0", "0", "0", "1",
                          "0", "0", "0", "2", "0", "0", "0", "3">>
  /\ decResult = Absent

\* C7: the tag check decides decodeCTIM.  For every candidate 64-bit value,
\* converted from an integer or parsed from a text, the result is absent
\* exactly when bits 63-60 are not 0xC; 0xCFF, 0xC003FFFFFFFFFFF and
\* 0xFFFFFFFFFFFFFFFF are rejected.
C7_TagDecides ==
  (chain = "dec" /\ decValue # Absent) =>
    /\ (decResult = Absent) <=> (decValue[1][1] \div 4096 # 12)
    /\ decValue[1] \in {<<0, 0, 0, 3327>>, <<3072, 16383, 65535, 65535>>,
                        <<65535, 65535, 65535, 65535>>} => decResult = Absent

C7_Witness ==
  /\ chain = "dec"
  /\ decInput = Present([T |-> "int", ctim |-> <<0, 3327>>])
  /\ decValue = Present(<<0, 0, 0, 3327>>)
  /\ decResult = Absent

\* C8: unpacking.  For every candidate value v with bits 63-60 equal to 0xC,
\* given as an unsigned 64-bit integer or as the 16 uppercase hex characters
\* of v, decodeCTIM returns ledgerIndex = (v >> 32) & 0xFFFFFFF,
\* transactionIndex = (v >> 16) & 0xFFFF and networkId = v & 0xFFFF.
C8_Unpacking ==
  LET v == decValue[1]
      d == decInput[1]
      D == <<"0", "1", "2", "3", "4", "5", "6", "7",
             "8", "9", "A", "B", "C", "D", "E", "F">>
      Nib(i) == (v[((i - 1) \div 4) + 1] \div (16 ^ (3 - ((i - 1) % 4)))) % 16
  IN  (chain = "dec" /\ decValue # Absent /\ v[1] \div 4096 = 12) =>
        /\ decResult = Present(<<<<v[1] % 4096, v[2]>>, <<v[3]>>, <<v[4]>>>>)
        /\ d.T \in {"std::string", "const char *"} =>
             \A i \in 1..16 : d.ctim[i] = D[Nib(i) + 1]
        /\ d.T = "unsigned long long" => d.ctim = v

C8_Witness ==
  /\ chain = "dec"
  /\ decInput[1].T = "std::string"
  /\ decValue = Present(<<49354, 10919, 12911, 49221>>)
  /\ decResult = Present(<<<<202, 10919>>, <<12911>>, <<49221>>>>)

\* C9: failure policy.  No call of encodeCTIM or decodeCTIM terminates the
\* process; a returned triple has its three fields; every text that passes
\* the length and character checks is parsed to a 64-bit value.
C9_NeverTerminates ==
  /\ ~terminated
  /\ decResult # Absent => Len(decResult[1]) = 3
  /\ (/\ chain = "dec"
      /\ decInput[1].T \in {"std::string", "const char *"}
      /\ Len(decInput[1].ctim) = 16
      /\ \A i \in 1..16 : decInput[1].ctim[i] \in
           {"0", "1", "2", "3", "4", "5", "6", "7",
            "8", "9", "A", "B", "C", "D", "E", "F"}) =>
       /\ decValue # Absent
       /\ Len(decValue[1]) = 4

C9_Witness ==
  /\ chain = "dec"
  /\ decInput[1].T = "std::string"
  /\ Len(decInput[1].ctim) = 16
  /\ decValue = Present(<<65535, 65535, 65535, 65535>>)
  /\ decResult = Absent
  /\ ~terminated

\* C10: reverse round trip.  For every accepted value v, encodeCTIM of the
\* triple decodeCTIM returned succeeds, packs v again and returns the 16
\* uppercase hex characters of v (the text itself when v was given as text).
C10_ReverseRoundTrip ==
  LET v == decValue[1]
      d == decInput[1]
      D == <<"0", "1", "2", "3", "4", "5", "6", "7",
             "8", "9", "A", "B", "C", "D", "E", "F">>
      Nib(i) == (v[((i - 1) \div 4) + 1] \div (16 ^ (3 - ((i - 1) % 4)))) % 16
  IN  chain = "dec-enc" =>
        /\ encResult # Absent
        /\ encValue = decValue
        /\ Len(encResult[1]) = 16
        /\ \A i \in 1..16 : encResult[1][i] = D[Nib(i) + 1]
        /\ d.T \in {"std::string", "const char *"} => encResult[1] = d.ctim

C10_Witness ==
  /\ chain = "dec-enc"
  /\ decInput = Present([T |-> "unsigned long long",
                         ctim |-> <<49354, 10919, 12911, 49221>>])
  /\ encResult = Present(<<"C", "0", "C", "A", "2", "A", "A", "7",
                           "3", "2", "6", "F", "C", "0", "4", "5">>)

====
